---- MODULE Spec2Model ----
(***************************************************************************)
(* State-machine model of the ME 405 turret: the encoder position tracker, *)
(* the PD controller, the motor and servo drivers, the thermal camera's    *)
(* non-blocking capture and the three cooperative tasks of main.py         *)
(* (button, image, rotate) that share start_flag, image and setpoint.      *)
(*                                                                         *)
(* Python floats are modelled in fixed point: a real quantity q (setpoint, *)
(* controller output, duty cycle) is held as the integer floor(q * FP).    *)
(* Encoder counts, tick counters and queue entries are plain integers.     *)
(* Pulse widths are held in microseconds.                                  *)
(***************************************************************************)
EXTENDS Integers, Sequences, FiniteSets, TLC

\* ------------------------------------------------------------------------
\* Program constants (main.py:65-102, mlx_cam.py:30, servo_driver.py:49)
\* ------------------------------------------------------------------------
ENCODER_COUNT_PER_REV == 98218
MOTOR_CONTROL_INTERVAL == 10
MOTOR_CONTROL_PERIOD == 2000
MOTOR_CONTROL_POINTS == MOTOR_CONTROL_PERIOD \div MOTOR_CONTROL_INTERVAL
MOTOR_ACTUATE_THRESH == 15
THERMAL_LIMITS == <<0, 100>>
BUTTON_TASK_INTERVAL == 10
SERVO_START_POS == 2000
SERVO_PULLED_POS == 1650
WAIT_TIME == 5000
SERVO_WAIT_TIME == 2000
IMAGE_WAIT_TIME == 50
CHECK == 1
INIT == 2
WAIT == 3
DONE == 4
RUN == 5
FIRE == 6
CAPTURE == 7
PARSE == 8
IDLE == 9
LOCATE == 10
ROTATE == 11
RESET == 12
NUM_ROWS == 24
NUM_COLS == 32
F_SYSCLK_MHZ == 80
SERVO_PERIOD == 19999
SERVO_PS == 79
TIMER_PERIOD == 65535
\* A proportional gain of 1, the value main.py:150 has commented out.
Kp_tuned == 0 + 1
Kp_init == 0
Kd_init == 0

\* Fixed-point resolution of the modelled floats (units per 1.0).
FP == 1000

\* turret_fov of center_of_mass_to_degrees in millidegrees:
\* 2 * degrees(atan(c * tan(radians(camera_fov / 2)) / t)) with c = 9, t = 17
\* and camera_fov = 55 is 30.8158... degrees.
TURRET_FOV_MDEG == 30816

\* The value of a Python None reference (self.image before a frame arrives).
NoImage == 0

\* ------------------------------------------------------------------------
\* Bounds of the model
\* ------------------------------------------------------------------------
\* Number of distinct thermal frames with a warm target that the camera can
\* deliver; it can also deliver one frame whose readings are all equal.
MaxFrames == 2
\* Number of Encoder.read() calls explored in the encoder specification.
MaxReads == 4
\* Longest row and largest number of rows of the frames given to the target
\* localisation on its own.
MaxRowLen == 3
MaxFrameRows == 2
\* Number of ProportionalController.run() calls explored in the controller
\* specification.
MaxRuns == 2
\* Number of aim-and-fire cycles the single task is started for.
MaxCycles == 2

FrameIds == 1..(MaxFrames + 1)

VARIABLES
    \* Encoder (encoder_reader.py)
    ar,             \* timer auto-reload value (the counter period P)
    timer_counter,  \* hardware counter, 0..ar
    position,       \* Encoder.position
    prev_count,     \* Encoder.prev_count
    \* ProportionalController (proportional_controller.py)
    Kp, Kd,
    pc_setpoint,    \* ProportionalController.setpoint (fixed point)
    setvel,
    prev_pos,
    queue_len,      \* capacity of the two sample queues
    timeQ, positionQ,
    \* MotorDriver channels (fixed-point percent) and ServoDriver channel
    ch1, ch2,
    servo_pw,       \* pulse width register of the servo PWM channel
    led,
    \* MLX_Cam
    getting_image, subpage,
    \* turret_gen_class shared attributes
    start_flag, image, setpoint, start_time,
    \* generator locals of the three tasks
    b_state, b_wait,
    i_state, i_wait,
    r_state, r_wait,
    \* turret_process_gen_fun (the single-task variant): its state and
    \* self.loop_val
    state, loop_val,
    \* cotask: the tasks that are ready to run (go flag set) and the time in
    \* milliseconds within the longest task period
    sched,
    \* environment
    now,            \* utime.ticks_ms()
    sw1,            \* level of the start button pin as last sampled
    \* main(): the statement the main program is at
    main_pc,
    \* a call made on one object alone: its argument and what it returned
    arg, ret,
    \* history (observation only; never read by the modelled code)
    h

encVars == <<ar, timer_counter, position, prev_count>>
pcVars == <<Kp, Kd, pc_setpoint, setvel, prev_pos, queue_len, timeQ, positionQ>>
drvVars == <<ch1, ch2, servo_pw, led>>
camVars == <<getting_image, subpage>>
sharedVars == <<start_flag, image, setpoint, start_time>>
taskVars ==
    <<b_state, b_wait, i_state, i_wait, r_state, r_wait, sched, state,
      loop_val>>
callVars == <<arg, ret>>
vars == <<encVars, pcVars, drvVars, camVars, sharedVars, taskVars, now, sw1,
          main_pc, callVars, h>>

Abs(x) == IF x < 0 THEN -x ELSE x
Min2(a, b) == IF a < b THEN a ELSE b
Max2(a, b) == IF a > b THEN a ELSE b

RECURSIVE SumSeq(_)
SumSeq(s) == IF s = <<>> THEN 0 ELSE Head(s) + SumSeq(Tail(s))

MaxOf(S) == CHOOSE m \in S : \A x \in S : x <= m
MinOf(S) == CHOOSE m \in S : \A x \in S : m <= x

\* floor(a * b / c) for c > 0, computed without leaving 32-bit integers.
MulDiv(a, b, c) == (a \div c) * b + ((a % c) * b) \div c

\* Python int(): truncation toward zero of a / b, for b > 0.
TruncDiv(a, b) == IF a >= 0 THEN a \div b ELSE -((-a) \div b)

\* ------------------------------------------------------------------------
\* Encoder (encoder_reader.py)
\* ------------------------------------------------------------------------
\* update_position without its underflow branch.
unwrap_no_underflow(delta, arv) ==
    IF 2 * delta < -(arv + 1) THEN delta + (arv + 1) ELSE delta

\* A correction by the period ar instead of the ar + 1 values of the counter.
unwrap_by_period(delta, arv) ==
    IF 2 * delta > arv + 1 THEN delta - arv
    ELSE IF 2 * delta < -(arv + 1) THEN delta + arv
    ELSE delta

\* The underflow / overflow correction of update_position.  val = (ar+1)/2 is
\* a float, so delta > val is compared as 2*delta > ar+1.
unwrap(delta, arv) ==
    IF 2 * delta > arv + 1 THEN delta - (arv + 1)
    ELSE IF 2 * delta < -(arv + 1) THEN delta + (arv + 1)
    ELSE delta

\* The position Encoder.read() returns: update_position, then self.position.
read_value == position + unwrap(timer_counter - prev_count, ar)

update_position ==
    /\ position' = read_value
    /\ prev_count' = timer_counter
    /\ UNCHANGED <<ar, timer_counter>>

zero ==
    /\ position' = 0
    /\ UNCHANGED <<ar, timer_counter, prev_count>>

\* ------------------------------------------------------------------------
\* MotorDriver (motor_driver.py) and ServoDriver (servo_driver.py)
\* ------------------------------------------------------------------------
\* A clipping that forgets the lower limit.
clip_upper_only(level) == IF level > 100 * FP THEN 100 * FP ELSE level

clip(level) ==
    IF level > 100 * FP THEN 100 * FP
    ELSE IF level < -100 * FP THEN -100 * FP
    ELSE level

set_duty_cycle(level) ==
    LET l == clip(level) IN
    IF l >= 0 THEN ch2' = 0 /\ ch1' = l
    ELSE ch1' = 0 /\ ch2' = Abs(l)

\* ar_counts for a pulse width given in microseconds.
ar_counts(value_us) ==
    TruncDiv(value_us * F_SYSCLK_MHZ - (SERVO_PS + 1), SERVO_PS + 1)

pulse_width_val(value_us) == Max2(0, Min2(ar_counts(value_us), SERVO_PERIOD))

set_pulse_width(value_us) == servo_pw' = pulse_width_val(value_us)

\* ServoDriver.zero(): self.channel.pulse_width(0)
servo_zero == servo_pw' = 0

\* ------------------------------------------------------------------------
\* ProportionalController (proportional_controller.py)
\* ------------------------------------------------------------------------
\* IntQueue.put of the cqueue library: a full queue drops its oldest entry.
IntQueue_put(q, x, size) ==
    IF Len(q) < size THEN Append(q, x) ELSE Append(Tail(q), x)

\* A velocity estimate rounded toward zero.
current_velocity_truncated(cur, interval) ==
    TruncDiv((cur - prev_pos) * 1000, interval)

\* (current_position - self.prev_pos) * 1000 // interval
current_velocity(cur, interval) == ((cur - prev_pos) * 1000) \div interval

\* A control law that does not apply the position gain.
pwm_gain_ignored(kp, kd, sp, sv, cur, vel) ==
    (sp - cur * FP) + kd * (sv * FP - vel * FP)

\* Kp * (setpoint - pos) + Kd * (setvel - vel) in fixed point, for integer
\* gains, a fixed-point setpoint sp and integer sv, cur and vel.
pwm(kp, kd, sp, sv, cur, vel) ==
    kp * (sp - cur * FP) + kd * (sv * FP - vel * FP)

\* pwm = Kp*(setpoint - pos) + Kd*(setvel - vel), in fixed point; sp is the
\* controller's setpoint at the time of the call.
pwm_value(sp, cur, interval) ==
    pwm(Kp, Kd, sp, setvel, cur, current_velocity(cur, interval))

\* A run() that logs the position of the previous step instead of the one
\* it has just read.
run_logs_prev_pos(sp, interval, start) ==
    /\ timeQ' = IntQueue_put(timeQ, now - start, queue_len)
    /\ update_position
    /\ positionQ' = IntQueue_put(positionQ, prev_pos, queue_len)
    /\ set_duty_cycle(pwm_value(sp, read_value, interval))
    /\ prev_pos' = read_value
    /\ UNCHANGED <<Kp, Kd, setvel, queue_len>>

\* ProportionalController.run(interval, start) with the controller's
\* setpoint equal to sp: the effect on the queues, the encoder, the motor
\* and prev_pos.  The value returned is pwm_value(sp, read_value, interval).
run(sp, interval, start) ==
    /\ timeQ' = IntQueue_put(timeQ, now - start, queue_len)
    /\ update_position
    /\ positionQ' = IntQueue_put(positionQ, read_value, queue_len)
    /\ set_duty_cycle(pwm_value(sp, read_value, interval))
    /\ prev_pos' = read_value
    /\ UNCHANGED <<Kp, Kd, setvel, queue_len>>

\* Python values given to the gain setters: the type of the value and, for
\* a number, the number.
is_number(x) == x.type \in {"float", "int"}

ValueError == "ValueError"

\* A set_Kp that rejects only negative numbers.
set_Kp_raises_negative_only(x) == ~is_number(x) \/ x.val < 0

\* set_Kp raises ValueError: the value is not a float or an int, or it is
\* not positive.
set_Kp_raises(x) == ~is_number(x) \/ x.val <= 0

\* set_Kd raises ValueError: the value is not a float or an int.
set_Kd_raises(x) == ~is_number(x)

\* A set_Kp that stores a number before it checks its sign.
set_Kp_stores_first(x) == Kp' = IF is_number(x) THEN x.val ELSE Kp

set_Kp(x) == Kp' = IF set_Kp_raises(x) THEN Kp ELSE x.val

set_Kd(x) == Kd' = IF set_Kd_raises(x) THEN Kd ELSE x.val

set_setpoint(v) == pc_setpoint' = v

set_setvel(v) == setvel' = v

\* ------------------------------------------------------------------------
\* MLX_Cam (mlx_cam.py)
\* ------------------------------------------------------------------------
\* A camera that keeps the subpage of the previous acquisition.
cam_subpage_stale == subpage

\* The subpage get_image_nonblocking works on: 0 when a new acquisition
\* begins, the stored one otherwise.
cam_subpage == IF getting_image THEN subpage ELSE 0

\* What get_image_nonblocking returns when the sensor's has_data flag is
\* has_data and the frame it would complete is f.
cam_result(has_data, f) == IF has_data /\ cam_subpage = 1 THEN f ELSE NoImage

get_image_nonblocking(has_data) ==
    /\ subpage' = IF has_data /\ cam_subpage = 0 THEN 1 ELSE cam_subpage
    /\ getting_image' = ~(has_data /\ cam_subpage = 1)

\* Raw thermal frames.  Frame f is a flat array of NUM_ROWS * NUM_COLS raw
\* readings, with one warm blob for f <= MaxFrames and all equal for the
\* last frame; TLA+ sequences are indexed from 1.
HotRow(f) == (5 * f) % NUM_ROWS
HotCol(f) == (7 * f + 3) % NUM_COLS
RawPixel(f, row, col) ==
    20 + (IF f > MaxFrames THEN 0
          ELSE IF row = HotRow(f) /\ col = HotCol(f) THEN 10
          ELSE IF row = HotRow(f) /\ Abs(col - HotCol(f)) = 1 THEN 5
          ELSE 0)
FrameData(f) ==
    [i \in 1..(NUM_ROWS * NUM_COLS) |->
        RawPixel(f, (i - 1) \div NUM_COLS, (i - 1) % NUM_COLS)]

\* get_num_csv(array, limits) divides by max(array) - min(array): it raises
\* ZeroDivisionError on an array whose readings are all equal.
get_num_csv_raises(array) ==
    LET vals == {array[i] : i \in DOMAIN array}
    IN MaxOf(vals) = MinOf(vals)

\* The frames of the camera on which parse_image raises.
raising_frames == {f \in FrameIds : get_num_csv_raises(FrameData(f))}

\* get_num_csv(array, limits): row `row` of the frame, scaled to the limits
\* and mirrored left to right.
get_num_csv_row(array, limits, row) ==
    LET vals == {array[i] : i \in DOMAIN array}
        lo == MinOf(vals)
        hi == MaxOf(vals)
    IN [c \in 1..NUM_COLS |->
          TruncDiv((array[row * NUM_COLS + (NUM_COLS - (c - 1) - 1) + 1] + (limits[1] - lo))
                      * (limits[2] - limits[1]), hi - lo)]

\* ------------------------------------------------------------------------
\* Target localisation (main.py:214-334)
\* ------------------------------------------------------------------------
\* The conversion without the half turn between camera and turret.
turret_angle_no_offset(angle_mdeg) ==
    MulDiv(angle_mdeg * (FP \div 1000), ENCODER_COUNT_PER_REV, 360)

\* (angle + 180) * ENCODER_COUNT_PER_REV / 360, angle in millidegrees, the
\* result in fixed-point encoder counts.
turret_angle_to_encoder_val(angle_mdeg) ==
    MulDiv((angle_mdeg + 180000) * (FP \div 1000), ENCODER_COUNT_PER_REV, 360)

RECURSIVE WeightedMass(_, _)
WeightedMass(data, idx) ==
    IF idx > Len(data) THEN 0
    ELSE (idx - 1) * data[idx] + WeightedMass(data, idx + 1)

ZeroDivisionError == "ZeroDivisionError"

\* weighted_mass / total_mass divides by zero: the row is not empty and its
\* entries sum to zero.
center_of_mass_raises(data) == Len(data) # 0 /\ SumSeq(data) = 0

\* The centre of mass in fixed-point columns; Python raises
\* ZeroDivisionError when the row is not empty and sums to zero.
get_center_of_mass(data) ==
    IF Len(data) = 0 THEN 0
    ELSE IF SumSeq(data) = 0 THEN ZeroDivisionError
    ELSE (WeightedMass(data, 1) * FP) \div SumSeq(data)

\* The conversion without the change of reference to the centre line.
cm_to_degrees_from_left(cm, fov) == (cm * fov) \div (FP * NUM_COLS)

\* cm * (turret_fov / cols) - turret_fov / 2, in millidegrees, for a turret
\* field of view of fov millidegrees.
cm_to_degrees(cm, fov) == (cm * fov) \div (FP * NUM_COLS) - fov \div 2

center_of_mass_to_degrees(cm) == cm_to_degrees(cm, TURRET_FOV_MDEG)

\* Index (from 0) of the first row whose mean is the largest; all rows have
\* NUM_COLS entries, so the means compare as the sums do.
\* The last row whose mean is the largest.
last_largest_mean_idx(rows) ==
    LET best == MaxOf({SumSeq(rows[r]) : r \in DOMAIN rows})
    IN MaxOf({r \in DOMAIN rows : SumSeq(rows[r]) = best}) - 1

largest_mean_idx(rows) ==
    LET best == MaxOf({SumSeq(rows[r]) : r \in DOMAIN rows})
    IN MinOf({r \in DOMAIN rows : SumSeq(rows[r]) = best}) - 1

\* parse_image from the rows get_num_csv yields on.
parse_raises(rows) == center_of_mass_raises(rows[largest_mean_idx(rows) + 1])

parse_rows(rows) ==
    LET cm == get_center_of_mass(rows[largest_mean_idx(rows) + 1])
    IN IF parse_raises(rows) THEN ZeroDivisionError
       ELSE turret_angle_to_encoder_val(center_of_mass_to_degrees(cm))

parse_image(f) ==
    parse_rows([r \in 1..NUM_ROWS |->
                   get_num_csv_row(FrameData(f), THERMAL_LIMITS, r - 1)])

\* parse_image of every frame the camera can deliver on which it returns.
parsed_setpoint == [f \in FrameIds \ raising_frames |-> parse_image(f)]

\* ------------------------------------------------------------------------
\* Initial state: turret_gen_class.__init__ (main.py:108-179)
\* ------------------------------------------------------------------------
\* History kept for the properties below.  steps counts the calls of
\* ProportionalController.run, last_u is the value the last call returned,
\* servo_cmds lists the pulse widths the tasks requested (task, width),
\* started / fired record that start_flag was raised / that FIRE completed,
\* consumed that a PARSE tick has used the frame held in image,
\* polled_after_parse and polled_disabled that get_image_nonblocking was
\* called after a frame was parsed / while start_flag was clear.  moved is
\* the true movement of the shaft since the last read, true_sum the sum of
\* the movements of the read steps since the last zero(), exact_half that
\* one of those steps moved exactly half a period, reads the number of reads.
\* zeroed records that zero() has been called in the encoder specification,
\* since_zero is the true movement of the shaft since that call and zreads
\* the number of reads since it.
\* acc lists the accesses the tasks have made to the shared attributes, as
\* <<task, attribute, "r" or "w">>.
\* obs describes the last run() of the controller specification: prev_pos
\* before the call, the position p it read, the velocity it estimated and
\* the value it passed to the actuate callback.  samples lists the
\* (elapsed time, position) pairs the run() calls of the controller
\* specification have produced since the log was last cleared.
\* sp_written is the value last written to the shared setpoint and the task
\* that wrote it ("init": none since __init__); stale_setpoint records that
\* a controller step of the rotate task worked with a setpoint other than
\* the shared setpoint as it stood at the start of the tick, or than the
\* value last written by the button or the image task.
\* cam.data_calls counts, in the driver specification, the calls of
\* get_image_nonblocking on which the sensor had data since the last frame
\* was returned (or since construction); cam.before is that count as it
\* stood before the last call.
\* cycles counts the cycles the single task has been started for, gen_runs
\* the run() calls of its current or last ROTATE phase, and fire_cmds holds
\* the pulse widths its current or last FIRE phase has given the servo.
\* wait_ticks counts the ticks the button task has run in WAIT since INIT.
HInit ==
    [steps |-> 0, last_u |-> 0, servo_cmds |-> <<>>,
     started |-> FALSE, fired |-> FALSE, consumed |-> FALSE,
     polled_after_parse |-> FALSE, polled_disabled |-> FALSE,
     moved |-> 0, true_sum |-> 0, exact_half |-> FALSE, reads |-> 0,
     zeroed |-> FALSE, since_zero |-> 0, zreads |-> 0,
     acc |-> {}, samples |-> <<>>, cycles |-> 0, gen_runs |-> 0,
     fire_cmds |-> {}, wait_ticks |-> 0,
     cam |-> [before |-> 0, data_calls |-> 0],
     sp_written |-> [by |-> "init", value |-> 0], stale_setpoint |-> FALSE,
     obs |-> [prev_pos |-> 0, p |-> 0, vel |-> 0, actuated |-> 0]]

\* ProportionalController.__init__(Kp, Kd, setpoint, setvel, ..., data_points)
pc_init(kp, kd, sp, sv, data_points) ==
    /\ Kp = kp /\ Kd = kd /\ pc_setpoint = sp /\ setvel = sv
    /\ prev_pos = 0 /\ queue_len = data_points
    /\ timeQ = <<>> /\ positionQ = <<>>

\* Everything turret_gen_class.__init__ sets up except the controller; the
\* three tasks main() registers are ready for their first run.
ConstructedAround ==
    /\ timer_counter = 0 /\ position = 0 /\ prev_count = 0
    /\ ch1 = 0 /\ ch2 = 0
    /\ servo_pw = pulse_width_val(SERVO_START_POS)
    /\ led = FALSE
    /\ getting_image = FALSE /\ subpage = 0
    /\ start_flag = 0 /\ image = NoImage /\ setpoint = 0 /\ start_time = 0
    /\ b_state = CHECK /\ b_wait = 0
    /\ i_state = CAPTURE /\ i_wait = 0
    /\ r_state = RUN /\ r_wait = 0
    /\ state = IDLE /\ loop_val = 0
    /\ sched = [go |-> {"button", "rotate", "image"}, ms |-> 0]
    /\ now = 0 /\ sw1 = 1
    /\ h = HInit

Constructed ==
    /\ pc_init(Kp_init, Kd_init, 0, 0, MOTOR_CONTROL_POINTS)
    /\ ConstructedAround

\* No call is being made on an object alone.
NoCall == arg = [fn |-> "none"] /\ ret = <<"none", 0>>

\* The three tasks are studied from the point where main() has entered its
\* scheduler loop (main.py:717); nothing between the construction and that
\* point assigns an attribute of the turret.
Init == ar = TIMER_PERIOD /\ Constructed /\ NoCall /\ main_pc = "pri_sched"

\* ------------------------------------------------------------------------
\* Button task (main.py:474-533).  A task that runs has its go flag cleared
\* (cotask.Task.schedule).  The tasks run while main() is in its scheduler
\* loop.
\* ------------------------------------------------------------------------
\* not self.sw1.value(): the start button is active low.
button_pressed(level) == level = 0

\* A wait that ends one tick early.
wait_elapsed_early(wc) == wc + 1 >= WAIT_TIME \div BUTTON_TASK_INTERVAL

wait_elapsed(wc) == wc >= WAIT_TIME \div BUTTON_TASK_INTERVAL

ButtonCheck ==
    /\ main_pc = "pri_sched"
    /\ b_state = CHECK
    /\ sched' = [sched EXCEPT !.go = @ \ {"button"}]
    /\ UNCHANGED <<state, loop_val>>
    /\ \E level \in {0, 1} :
          /\ sw1' = level
          /\ b_state' = IF button_pressed(level) THEN INIT ELSE CHECK
    /\ UNCHANGED <<encVars, pcVars, drvVars, camVars, sharedVars, now, h,
                   main_pc, callVars, b_wait, i_state, i_wait, r_state, r_wait>>

ButtonInit ==
    /\ main_pc = "pri_sched"
    /\ b_state = INIT
    /\ sched' = [sched EXCEPT !.go = @ \ {"button"}]
    /\ UNCHANGED <<state, loop_val>>
    /\ led' = TRUE
    /\ set_pulse_width(SERVO_START_POS)
    /\ setpoint' = turret_angle_to_encoder_val(0)
    /\ pc_setpoint' = setpoint'
    /\ zero
    /\ b_state' = WAIT
    /\ h' = [h EXCEPT
               !.servo_cmds = Append(@, <<"button", SERVO_START_POS>>),
               !.sp_written = [by |-> "button", value |-> setpoint'],
               !.wait_ticks = 0,
               !.acc = @ \cup {<<"button", "setpoint", "w">>,
                               <<"button", "setpoint", "r">>}]
    /\ UNCHANGED <<Kp, Kd, setvel, prev_pos, queue_len, timeQ, positionQ,
                   ch1, ch2, camVars, start_flag, image, start_time, now, sw1, main_pc, callVars,
                   b_wait, i_state, i_wait, r_state, r_wait>>

ButtonWait ==
    /\ main_pc = "pri_sched"
    /\ b_state = WAIT
    /\ sched' = [sched EXCEPT !.go = @ \ {"button"}]
    /\ UNCHANGED <<state, loop_val>>
    /\ IF wait_elapsed(b_wait)
       THEN /\ start_flag' = 1
            /\ b_wait' = 0
            /\ b_state' = DONE
            /\ h' = [h EXCEPT
                       !.started = TRUE,
                       !.wait_ticks = @ + 1,
                       !.acc = @ \cup {<<"button", "start_flag", "w">>}]
       ELSE /\ b_wait' = b_wait + 1
            /\ h' = [h EXCEPT !.wait_ticks = @ + 1]
            /\ UNCHANGED <<start_flag, b_state>>
    /\ UNCHANGED <<encVars, pcVars, drvVars, camVars, image, setpoint,
                   start_time, now, sw1, main_pc, callVars, i_state, i_wait, r_state, r_wait>>

\* A DONE state that goes back to polling the button.
ButtonDone_rearm ==
    /\ main_pc = "pri_sched"
    /\ b_state = DONE
    /\ sched' = [sched EXCEPT !.go = @ \ {"button"}]
    /\ UNCHANGED <<state, loop_val>>
    /\ b_state' = CHECK
    /\ UNCHANGED <<encVars, pcVars, drvVars, camVars, sharedVars, now, sw1, main_pc, callVars, h,
                   b_wait, i_state, i_wait, r_state, r_wait>>

ButtonDone ==
    /\ main_pc = "pri_sched"
    /\ b_state = DONE
    /\ sched' = [sched EXCEPT !.go = @ \ {"button"}]
    /\ UNCHANGED <<state, loop_val>>
    /\ UNCHANGED <<encVars, pcVars, drvVars, camVars, sharedVars, now, sw1,
                   main_pc, callVars, h, b_state, b_wait, i_state, i_wait,
                   r_state, r_wait, state, loop_val>>

ButtonTick == ButtonCheck \/ ButtonInit \/ ButtonWait \/ ButtonDone

\* ------------------------------------------------------------------------
\* Image task (main.py:536-589)
\* ------------------------------------------------------------------------
\* An image task that does not look at start_flag.
image_always_enabled == TRUE

image_enabled == start_flag # 0

need_image == image = NoImage

\* What self.image holds after a PARSE tick that found it holding img:
\* the PARSE branch does not assign self.image.
image_cleared_after_parse(img) == NoImage

image_after_parse(img) == img

parse_wait_done(wc) == wc >= MOTOR_CONTROL_PERIOD \div MOTOR_CONTROL_INTERVAL

ImageCapture ==
    /\ main_pc = "pri_sched"
    /\ i_state = CAPTURE
    /\ sched' = [sched EXCEPT !.go = @ \ {"image"}]
    /\ UNCHANGED <<state, loop_val>>
    /\ IF image_enabled
       THEN IF need_image
            THEN \E has_data \in BOOLEAN, f \in FrameIds :
                    /\ get_image_nonblocking(has_data)
                    /\ image' = cam_result(has_data, f)
                    /\ h' = [h EXCEPT
                               !.polled_after_parse = @ \/ h.consumed,
                               !.polled_disabled = @ \/ start_flag = 0,
                               !.consumed = FALSE,
                               !.acc = @ \cup {<<"image", "start_flag", "r">>,
                                               <<"image", "image", "r">>,
                                               <<"image", "image", "w">>}]
                    /\ UNCHANGED i_state
            ELSE /\ i_state' = PARSE
                 /\ h' = [h EXCEPT
                            !.acc = @ \cup {<<"image", "start_flag", "r">>,
                                            <<"image", "image", "r">>}]
                 /\ UNCHANGED <<camVars, image>>
       ELSE /\ h' = [h EXCEPT !.acc = @ \cup {<<"image", "start_flag", "r">>}]
            /\ UNCHANGED <<camVars, image, i_state>>
    /\ UNCHANGED <<encVars, pcVars, drvVars, start_flag, setpoint, start_time,
                   now, sw1, main_pc, callVars, b_state, b_wait, i_wait, r_state, r_wait>>

\* A PARSE state that clears the enable flag once the frame is parsed.
ImageParse_clears_flag ==
    /\ main_pc = "pri_sched"
    /\ i_state = PARSE
    /\ sched' = [sched EXCEPT !.go = @ \ {"image"}]
    /\ UNCHANGED <<state, loop_val>>
    /\ image \notin raising_frames
    /\ IF i_wait = 0
       THEN /\ setpoint' = parsed_setpoint[image]
            /\ start_flag' = 0
            /\ h' = [h EXCEPT
                       !.consumed = TRUE,
                       !.sp_written = [by |-> "image", value |-> setpoint'],
                       !.acc = @ \cup {<<"image", "image", "r">>,
                                       <<"image", "setpoint", "w">>,
                                       <<"image", "start_flag", "w">>}]
       ELSE /\ h' = [h EXCEPT !.consumed = TRUE]
            /\ UNCHANGED <<setpoint, start_flag>>
    /\ i_wait' = IF parse_wait_done(i_wait) THEN 0 ELSE i_wait + 1
    /\ i_state' = CAPTURE
    /\ image' = image_after_parse(image)
    /\ UNCHANGED <<encVars, pcVars, drvVars, camVars, start_time,
                   now, sw1, main_pc, callVars, b_state, b_wait, r_state, r_wait>>

\* When parse_image raises, the exception leaves the generator, pri_sched()
\* and main(), whose try block handles KeyboardInterrupt only: the program
\* ends with nothing assigned.
ImageParse ==
    /\ main_pc = "pri_sched"
    /\ i_state = PARSE
    /\ sched' = [sched EXCEPT !.go = @ \ {"image"}]
    /\ UNCHANGED <<state, loop_val>>
    /\ IF i_wait = 0 /\ image \in raising_frames
       THEN /\ main_pc' = "exit"
            /\ h' = [h EXCEPT !.acc = @ \cup {<<"image", "image", "r">>}]
            /\ UNCHANGED <<setpoint, i_wait, i_state, image>>
       ELSE /\ IF i_wait = 0
               THEN /\ setpoint' = parsed_setpoint[image]
                    /\ i_wait' = i_wait + 1
                    /\ h' = [h EXCEPT
                               !.consumed = TRUE,
                               !.sp_written = [by |-> "image",
                                               value |-> setpoint'],
                               !.acc = @ \cup {<<"image", "image", "r">>,
                                               <<"image", "setpoint", "w">>}]
               ELSE IF parse_wait_done(i_wait)
               THEN /\ i_wait' = 0
                    /\ h' = [h EXCEPT !.consumed = TRUE]
                    /\ UNCHANGED setpoint
               ELSE /\ i_wait' = i_wait + 1
                    /\ h' = [h EXCEPT !.consumed = TRUE]
                    /\ UNCHANGED setpoint
            /\ i_state' = CAPTURE
            /\ image' = image_after_parse(image)
            /\ UNCHANGED main_pc
    /\ UNCHANGED <<encVars, pcVars, drvVars, camVars, start_flag, start_time,
                   now, sw1, callVars, b_state, b_wait, r_state, r_wait>>

ImageTick == ImageCapture \/ ImageParse

\* ------------------------------------------------------------------------
\* Rotate task (main.py:592-656)
\* ------------------------------------------------------------------------
\* A rotate task that does not look at start_flag.
rotate_always_enabled == TRUE

rotate_enabled == start_flag # 0

\* A FIRE state that leaves start_flag set.
start_flag_left_set == 0 + 1

\* self.start_flag = 0 at the end of FIRE.
start_flag_after_fire == 0

\* A RUN phase that lasts one tick longer.
done_rotating_late(wc) == wc > MOTOR_CONTROL_PERIOD \div MOTOR_CONTROL_INTERVAL

done_rotating(wc) == wc >= MOTOR_CONTROL_PERIOD \div MOTOR_CONTROL_INTERVAL

\* A RUN state that leaves the controller's setpoint as it is.
rotate_setpoint_stale == pc_setpoint

\* self.pcontrol.set_setpoint(self.setpoint): the setpoint the controller
\* step of a RUN tick works with.
rotate_setpoint == setpoint

\* First FIRE tick: if wait_counter == 0.
fire_first(wc) == wc = 0

done_waiting(wc) == wc >= SERVO_WAIT_TIME \div MOTOR_CONTROL_INTERVAL

\* The wait counter after the two ifs that precede the controller step.
run_counter(wc) ==
    LET wc1 == IF wc = 0 THEN wc + 1 ELSE wc
    IN IF done_rotating(wc1) THEN 0 ELSE wc1

\* A RUN state that names the button task's DONE as its successor.
run_next_state_done(wc) ==
    IF done_rotating(IF wc = 0 THEN wc + 1 ELSE wc) THEN DONE ELSE RUN

run_next_state(wc) ==
    IF done_rotating(IF wc = 0 THEN wc + 1 ELSE wc) THEN FIRE ELSE RUN

\* The rotate task runs once per MOTOR_CONTROL_INTERVAL (main.py:686), so
\* the millisecond clock it reads advances by that period from one active
\* RUN tick to the next.
RotateRun ==
    /\ main_pc = "pri_sched"
    /\ r_state = RUN
    /\ sched' = [sched EXCEPT !.go = @ \ {"rotate"}]
    /\ UNCHANGED <<state, loop_val>>
    /\ IF rotate_enabled
       THEN /\ start_time' = IF r_wait = 0 THEN now ELSE start_time
            /\ r_state' = run_next_state(r_wait)
            /\ pc_setpoint' = rotate_setpoint
            /\ run(rotate_setpoint, MOTOR_CONTROL_INTERVAL, start_time')
            /\ r_wait' = run_counter(r_wait) + 1
            /\ now' = now + MOTOR_CONTROL_INTERVAL
            /\ h' = [h EXCEPT
                       !.steps = @ + 1,
                       !.last_u = pwm_value(rotate_setpoint, read_value,
                                            MOTOR_CONTROL_INTERVAL),
                       !.stale_setpoint =
                           \/ @
                           \/ rotate_setpoint # setpoint
                           \/ rotate_setpoint # h.sp_written.value
                           \/ h.sp_written.by \notin {"button", "image"},
                       !.acc = @ \cup {<<"rotate", "start_flag", "r">>,
                                       <<"rotate", "setpoint", "r">>}]
            /\ UNCHANGED <<servo_pw, led>>
       ELSE /\ h' = [h EXCEPT !.acc = @ \cup {<<"rotate", "start_flag", "r">>}]
            /\ UNCHANGED <<encVars, pcVars, drvVars, start_time, r_state,
                           r_wait, now>>
    /\ UNCHANGED <<camVars, start_flag, image, setpoint, sw1, main_pc, callVars,
                   b_state, b_wait, i_state, i_wait>>

RotateFire ==
    /\ main_pc = "pri_sched"
    /\ r_state = FIRE
    /\ sched' = [sched EXCEPT !.go = @ \ {"rotate"}]
    /\ UNCHANGED <<state, loop_val>>
    /\ IF fire_first(r_wait)
       THEN /\ set_pulse_width(SERVO_PULLED_POS)
            /\ r_wait' = r_wait + 1
            /\ h' = [h EXCEPT
                       !.servo_cmds = Append(@, <<"rotate", SERVO_PULLED_POS>>)]
            /\ UNCHANGED <<r_state, start_flag>>
       ELSE IF done_waiting(r_wait)
       THEN /\ set_pulse_width(SERVO_START_POS)
            /\ r_wait' = 0
            /\ r_state' = RUN
            /\ start_flag' = start_flag_after_fire
            /\ h' = [h EXCEPT
                       !.servo_cmds = Append(@, <<"rotate", SERVO_START_POS>>),
                       !.fired = TRUE,
                       !.acc = @ \cup {<<"rotate", "start_flag", "w">>}]
       ELSE /\ r_wait' = r_wait + 1
            /\ UNCHANGED <<servo_pw, r_state, start_flag, h>>
    /\ UNCHANGED <<encVars, pcVars, ch1, ch2, led, camVars, image, setpoint,
                   start_time, now, sw1, main_pc, callVars, b_state, b_wait, i_state, i_wait>>

RotateTick == RotateRun \/ RotateFire

\* ------------------------------------------------------------------------
\* The three tasks under the cooperative scheduler: one task runs one tick
\* at a time, in any order (main.py:698-718).
\* ------------------------------------------------------------------------
Next == ButtonTick \/ ImageTick \/ RotateTick

Spec == Init /\ [][Next]_vars

\* ------------------------------------------------------------------------
\* The three tasks under the cotask priority scheduler as main() sets it up
\* (main.py:675-718): each task becomes ready once per period, and one call
\* of pri_sched() runs one tick of the ready task with the largest priority
\* number.  A tick takes no time; when no task is ready, time passes to the
\* next multiple of the shortest period.  main() calls pri_sched() forever,
\* so the scheduler always takes its next step.
\* ------------------------------------------------------------------------
\* priority= of the three cotask.Task objects.
task_priority(t) ==
    CASE t = "button" -> 0
      [] t = "rotate" -> 1
      [] t = "image" -> 2

SchedElapse ==
    /\ main_pc = "pri_sched"
    /\ sched.go = {}
    /\ LET ms == (sched.ms + BUTTON_TASK_INTERVAL) % IMAGE_WAIT_TIME
       IN sched' = [go |-> {"button"}
                            \cup (IF ms % MOTOR_CONTROL_INTERVAL = 0
                                  THEN {"rotate"} ELSE {})
                            \cup (IF ms % IMAGE_WAIT_TIME = 0
                                  THEN {"image"} ELSE {}),
                    ms |-> ms]
    /\ UNCHANGED <<encVars, pcVars, drvVars, camVars, sharedVars, now, sw1,
                   main_pc, callVars, h, b_state, b_wait, i_state, i_wait,
                   r_state, r_wait, state, loop_val>>

pri_sched ==
    /\ sched.go # {}
    /\ LET first == CHOOSE t \in sched.go :
                        \A u \in sched.go : task_priority(u) <= task_priority(t)
       IN \/ first = "button" /\ ButtonTick
          \/ first = "rotate" /\ RotateTick
          \/ first = "image" /\ ImageTick

NextSched == SchedElapse \/ pri_sched

SpecSched == Init /\ [][NextSched]_vars /\ WF_vars(NextSched)

\* ------------------------------------------------------------------------
\* main() (main.py:659-729) with a KeyboardInterrupt that may arrive at any
\* statement.  main_pc is "setup" from the construction of the turret to
\* gc.collect() (main.py:669-707, before the try block), "wait_button" in
\* the loop on the start button, "pri_sched" in the scheduler loop and
\* "exit" when main() has terminated.
\* ------------------------------------------------------------------------
MainSetup ==
    /\ main_pc = "setup"
    /\ main_pc' = "wait_button"
    /\ UNCHANGED <<encVars, pcVars, drvVars, camVars, sharedVars, taskVars,
                   now, sw1, callVars, h>>

\* while not button.value(): pass
MainWaitButton ==
    /\ main_pc = "wait_button"
    /\ \E level \in {0, 1} :
          /\ sw1' = level
          /\ main_pc' = IF level = 0 THEN "wait_button" ELSE "pri_sched"
    /\ UNCHANGED <<encVars, pcVars, drvVars, camVars, sharedVars, taskVars,
                   now, callVars, h>>

\* while True: cotask.task_list.pri_sched()
MainSched == main_pc = "pri_sched" /\ Next

\* The interrupt arrives outside the try block: no handler runs and the
\* exception ends main().
InterruptSetup ==
    /\ main_pc = "setup"
    /\ main_pc' = "exit"
    /\ UNCHANGED <<encVars, pcVars, drvVars, camVars, sharedVars, taskVars,
                   now, sw1, callVars, h>>

\* except KeyboardInterrupt: servo.zero(), motor.set_duty_cycle(0), led.low()
except_KeyboardInterrupt ==
    /\ servo_zero
    /\ set_duty_cycle(0)
    /\ led' = FALSE
    /\ main_pc' = "exit"

\* The interrupt arrives inside the try block, between two task ticks (this
\* includes every tick boundary of the FIRE hold).
InterruptTry ==
    /\ main_pc \in {"wait_button", "pri_sched"}
    /\ except_KeyboardInterrupt
    /\ UNCHANGED <<encVars, pcVars, camVars, sharedVars, taskVars,
                   now, sw1, callVars, h>>

\* The interrupt arrives in the middle of a controller step: run() has
\* sampled the encoder and commanded the motor, prev_pos is not yet stored
\* and the rotate task has not counted the tick.
InterruptMidRun ==
    /\ main_pc = "pri_sched"
    /\ r_state = RUN
    /\ rotate_enabled
    /\ start_time' = IF r_wait = 0 THEN now ELSE start_time
    /\ pc_setpoint' = setpoint
    /\ timeQ' = IntQueue_put(timeQ, now - start_time', queue_len)
    /\ update_position
    /\ positionQ' = IntQueue_put(positionQ, read_value, queue_len)
    /\ except_KeyboardInterrupt
    /\ h' = [h EXCEPT !.acc = @ \cup {<<"rotate", "start_flag", "r">>,
                                      <<"rotate", "setpoint", "r">>}]
    /\ UNCHANGED <<Kp, Kd, setvel, prev_pos, queue_len, camVars, start_flag,
                   image, setpoint, taskVars, now, sw1, callVars>>

NextMain ==
    \/ MainSetup
    \/ MainWaitButton
    \/ MainSched
    \/ InterruptSetup
    \/ InterruptTry
    \/ InterruptMidRun

InitMain == ar = TIMER_PERIOD /\ Constructed /\ NoCall /\ main_pc = "setup"

SpecMain == InitMain /\ [][NextMain]_vars

\* ------------------------------------------------------------------------
\* The target localisation on its own: get_center_of_mass, parse_image and
\* center_of_mass_to_degrees are called on rows, frames and centroids drawn
\* from small sets.  arg holds the call, ret what it produced:
\* <<"return", value>> or <<"raise", exception>>.
\* ------------------------------------------------------------------------
Intensities == {0, 10, 30}
RowsOfLen(n) == [1..n -> Intensities]
TestRows == UNION {RowsOfLen(n) : n \in 0..MaxRowLen}
TestFrames == UNION {[1..k -> RowsOfLen(MaxRowLen)] : k \in 1..MaxFrameRows}

\* Set-ups of the range: camera distance c and turret distance t (feet),
\* camera field of view (degrees), and the turret field of view
\* 2 * degrees(atan(c * tan(radians(camera_fov / 2)) / t)) in millidegrees.
Geometries ==
    {[c |-> 9, t |-> 17, camera_fov |-> 55, turret_fov |-> TURRET_FOV_MDEG],
     [c |-> 1, t |-> 1, camera_fov |-> 55, turret_fov |-> 55000],
     [c |-> 17, t |-> 9, camera_fov |-> 30, turret_fov |-> 53690],
     [c |-> 5, t |-> 20, camera_fov |-> 110, turret_fov |-> 39297],
     [c |-> 1, t |-> 2, camera_fov |-> 90, turret_fov |-> 53130],
     [c |-> 3, t |-> 3, camera_fov |-> 1, turret_fov |-> 1000]}

\* Centroids in half columns, from the left edge to the right edge.
Centroids == {k * (FP \div 2) : k \in 0..(2 * NUM_COLS)}

\* The calls made: one function applied to one input.
LocCalls ==
    {[fn |-> "get_center_of_mass", data |-> row] : row \in TestRows}
    \cup {[fn |-> "parse_image", rows |-> rows] : rows \in TestFrames}
    \cup {[fn |-> "center_of_mass_to_degrees", cm |-> cm, geometry |-> g] :
             cm \in Centroids, g \in Geometries}

CallCenterOfMass ==
    /\ arg.fn = "get_center_of_mass"
    /\ ret[1] = "none"
    /\ ret' = IF center_of_mass_raises(arg.data)
              THEN <<"raise", ZeroDivisionError>>
              ELSE <<"return", get_center_of_mass(arg.data)>>
    /\ UNCHANGED <<encVars, pcVars, drvVars, camVars, sharedVars, taskVars,
                   now, sw1, main_pc, arg, h>>

CallParseImage ==
    /\ arg.fn = "parse_image"
    /\ ret[1] = "none"
    /\ ret' = IF parse_raises(arg.rows)
              THEN <<"raise", ZeroDivisionError>>
              ELSE <<"return", parse_rows(arg.rows)>>
    /\ UNCHANGED <<encVars, pcVars, drvVars, camVars, sharedVars, taskVars,
                   now, sw1, main_pc, arg, h>>

CallCenterOfMassToDegrees ==
    /\ arg.fn = "center_of_mass_to_degrees"
    /\ ret[1] = "none"
    /\ ret' = <<"return", cm_to_degrees(arg.cm, arg.geometry.turret_fov)>>
    /\ UNCHANGED <<encVars, pcVars, drvVars, camVars, sharedVars, taskVars,
                   now, sw1, main_pc, arg, h>>

NextLoc == CallCenterOfMass \/ CallParseImage \/ CallCenterOfMassToDegrees

InitLoc ==
    /\ ar = TIMER_PERIOD /\ Constructed /\ main_pc = "pri_sched"
    /\ arg \in LocCalls
    /\ ret = <<"none", 0>>

SpecLoc == InitLoc /\ [][NextLoc]_vars

\* ------------------------------------------------------------------------
\* The ProportionalController on its own (actuate =
\* MotorDriver.set_duty_cycle, sense = Encoder.read).  In the first
\* specification the controller is constructed as main.py does and its
\* setters are called in any order; in the second it is constructed with
\* gains, setpoint and target velocity drawn from small sets and run() is
\* called while the shaft moves; the sample log has a capacity of one, two
\* or MOTOR_CONTROL_POINTS entries and may be cleared between two calls.
\* ------------------------------------------------------------------------
GainArgs ==
    {[type |-> "int", val |-> v] : v \in {-1, 0, 1, 2}}
    \cup {[type |-> "float", val |-> v] : v \in {-1, 0, 3}}
    \cup {[type |-> "bool", val |-> 1], [type |-> "str", val |-> 1],
          [type |-> "NoneType", val |-> 0]}

\* Gains, setpoints (fixed point) and target velocities the controller is
\* given.
KpArgs == {0, 1, 2, 3}
KdArgs == {-1, 0, 1, 2}
SetpointArgs == {0, 2 * FP, (ENCODER_COUNT_PER_REV * FP) \div 2}
SetvelArgs == {0, 100}

\* Intervals run() is called with, and movements of the shaft between two
\* calls.
Intervals == {MOTOR_CONTROL_INTERVAL, 3}
PcMoves == {-1, 1, 2}

None == 0

PcSetKp ==
    /\ \E x \in GainArgs :
          /\ set_Kp(x)
          /\ arg' = [fn |-> "set_Kp", value |-> x]
          /\ ret' = IF set_Kp_raises(x) THEN <<"raise", ValueError>>
                    ELSE <<"return", None>>
    /\ UNCHANGED <<encVars, Kd, pc_setpoint, setvel, prev_pos, queue_len,
                   timeQ, positionQ, drvVars, camVars, sharedVars, taskVars,
                   now, sw1, main_pc, h>>

PcSetKd ==
    /\ \E x \in GainArgs :
          /\ set_Kd(x)
          /\ arg' = [fn |-> "set_Kd", value |-> x]
          /\ ret' = IF set_Kd_raises(x) THEN <<"raise", ValueError>>
                    ELSE <<"return", None>>
    /\ UNCHANGED <<encVars, Kp, pc_setpoint, setvel, prev_pos, queue_len,
                   timeQ, positionQ, drvVars, camVars, sharedVars, taskVars,
                   now, sw1, main_pc, h>>

PcSetSetpoint ==
    /\ \E v \in SetpointArgs :
          /\ set_setpoint(v)
          /\ arg' = [fn |-> "set_setpoint", value |-> v]
    /\ ret' = <<"return", None>>
    /\ UNCHANGED <<encVars, Kp, Kd, setvel, prev_pos, queue_len,
                   timeQ, positionQ, drvVars, camVars, sharedVars, taskVars,
                   now, sw1, main_pc, h>>

PcSetSetvel ==
    /\ \E v \in SetvelArgs :
          /\ set_setvel(v)
          /\ arg' = [fn |-> "set_setvel", value |-> v]
    /\ ret' = <<"return", None>>
    /\ UNCHANGED <<encVars, Kp, Kd, pc_setpoint, prev_pos, queue_len,
                   timeQ, positionQ, drvVars, camVars, sharedVars, taskVars,
                   now, sw1, main_pc, h>>

\* The shaft turns by d counts between two calls of run().
PcMove ==
    /\ h.moved = 0
    /\ h.steps < MaxRuns
    /\ \E d \in PcMoves :
          /\ timer_counter' = (timer_counter + d) % (ar + 1)
          /\ h' = [h EXCEPT !.moved = d]
    /\ UNCHANGED <<ar, position, prev_count, pcVars, drvVars, camVars,
                   sharedVars, taskVars, now, sw1, main_pc, callVars>>

\* run(interval, start_time), start_time being the construction time.
PcRun ==
    /\ h.steps < MaxRuns
    /\ \E interval \in Intervals :
          /\ run(pc_setpoint, interval, start_time)
          /\ now' = now + interval
          /\ arg' = [fn |-> "run", interval |-> interval]
          /\ ret' = <<"return", pwm_value(pc_setpoint, read_value, interval)>>
          /\ h' = [h EXCEPT
                     !.steps = @ + 1,
                     !.reads = @ + 1,
                     !.moved = 0,
                     !.last_u = pwm_value(pc_setpoint, read_value, interval),
                     !.samples = Append(@, <<now - start_time, read_value>>),
                     !.obs = [prev_pos |-> prev_pos,
                              p |-> read_value,
                              vel |-> current_velocity(read_value, interval),
                              actuated |-> pwm_value(pc_setpoint, read_value,
                                                     interval)]]
    /\ UNCHANGED <<pc_setpoint, servo_pw, led, camVars, sharedVars, taskVars,
                   sw1, main_pc>>

NextGains == PcSetKp \/ PcSetKd \/ PcSetSetpoint \/ PcSetSetvel

SpecGains == Init /\ [][NextGains]_vars

\* ProportionalController.reset_queues(): timeQ.clear(), positionQ.clear()
reset_queues ==
    /\ timeQ' = <<>>
    /\ positionQ' = <<>>
    /\ arg' = [fn |-> "reset_queues"]
    /\ ret' = <<"return", None>>
    /\ h' = [h EXCEPT !.samples = <<>>]
    /\ UNCHANGED <<encVars, Kp, Kd, pc_setpoint, setvel, prev_pos, queue_len,
                   drvVars, camVars, sharedVars, taskVars, now, sw1, main_pc>>

\* A print_data() that drains the time queue only.
print_data_keeps_positions ==
    /\ timeQ' = <<>>
    /\ positionQ' = positionQ
    /\ arg' = [fn |-> "print_data", printed |-> Len(timeQ)]
    /\ ret' = <<"return", None>>
    /\ h' = [h EXCEPT !.samples = <<>>]
    /\ UNCHANGED <<encVars, Kp, Kd, pc_setpoint, setvel, prev_pos, queue_len,
                   drvVars, camVars, sharedVars, taskVars, now, sw1, main_pc>>

\* ProportionalController.print_data(): one get() from each queue per line
\* printed while timeQ.any(), then reset_queues().  arg.printed is the
\* number of lines printed.
print_data ==
    /\ timeQ' = <<>>
    /\ positionQ' = <<>>
    /\ arg' = [fn |-> "print_data", printed |-> Len(timeQ)]
    /\ ret' = <<"return", None>>
    /\ h' = [h EXCEPT !.samples = <<>>]
    /\ UNCHANGED <<encVars, Kp, Kd, pc_setpoint, setvel, prev_pos, queue_len,
                   drvVars, camVars, sharedVars, taskVars, now, sw1, main_pc>>

\* ProportionalController.set_data_points(num_data_points): two new queues
\* of the given length.
set_data_points ==
    /\ \E num_data_points \in {1, 2} :
          /\ queue_len' = num_data_points
          /\ arg' = [fn |-> "set_data_points",
                     num_data_points |-> num_data_points]
    /\ timeQ' = <<>>
    /\ positionQ' = <<>>
    /\ ret' = <<"return", None>>
    /\ h' = [h EXCEPT !.samples = <<>>]
    /\ UNCHANGED <<encVars, Kp, Kd, pc_setpoint, setvel, prev_pos, drvVars,
                   camVars, sharedVars, taskVars, now, sw1, main_pc>>

NextPC == PcMove \/ PcRun \/ reset_queues \/ print_data \/ set_data_points

InitPC ==
    /\ ar = TIMER_PERIOD /\ ConstructedAround /\ NoCall
    /\ main_pc = "pri_sched"
    /\ \E kp \in KpArgs, kd \in KdArgs, sp \in SetpointArgs, sv \in SetvelArgs,
          data_points \in {1, 2, MOTOR_CONTROL_POINTS} :
          pc_init(kp, kd, sp, sv, data_points)

SpecPC == InitPC /\ [][NextPC]_vars

\* The gain setters called between the run() calls of the controller main.py
\* constructs.
NextPCGains == PcMove \/ PcRun \/ PcSetKp \/ PcSetKd

SpecPCGains == Init /\ [][NextPCGains]_vars

\* ------------------------------------------------------------------------
\* The drivers on their own: MotorDriver.set_duty_cycle and
\* ServoDriver.set_pulse_width are called with levels (fixed-point percent)
\* and pulse widths (microseconds) inside and outside their ranges, and
\* MLX_Cam.get_image_nonblocking is polled while the sensor has or has not
\* data.
\* ------------------------------------------------------------------------
CallSetDutyCycle ==
    /\ \E level \in {-250 * FP, -100 * FP - 1, -100 * FP, -50 * FP, -1, 0, 1,
                      50 * FP, 100 * FP, 100 * FP + 1, 250 * FP} :
          /\ set_duty_cycle(level)
          /\ arg' = [fn |-> "set_duty_cycle", level |-> level]
    /\ ret' = <<"return", None>>
    /\ UNCHANGED <<encVars, pcVars, servo_pw, led, camVars, sharedVars,
                   taskVars, now, sw1, main_pc, h>>

CallSetPulseWidth ==
    /\ \E value \in {-1000, 0, 500, 800, 1000, 1500, 1650, 2000, 2200, 2500,
                      5000, 20000, 25000} :
          /\ set_pulse_width(value)
          /\ arg' = [fn |-> "set_pulse_width", value |-> value]
    /\ ret' = <<"return", None>>
    /\ UNCHANGED <<encVars, pcVars, ch1, ch2, led, camVars, sharedVars,
                   taskVars, now, sw1, main_pc, h>>

\* One call of get_image_nonblocking: has_data is the sensor's flag at the
\* call, f the frame read_image would complete, subpage the subpage the
\* call works on.
CallGetImageNonblocking ==
    /\ \E has_data \in BOOLEAN, f \in FrameIds :
          /\ get_image_nonblocking(has_data)
          /\ arg' = [fn |-> "get_image_nonblocking", has_data |-> has_data,
                     subpage |-> cam_subpage]
          /\ ret' = <<"return", cam_result(has_data, f)>>
          /\ h' = [h EXCEPT
                     !.cam = [before |-> @.data_calls,
                              data_calls |->
                                 IF cam_result(has_data, f) # NoImage THEN 0
                                 ELSE IF has_data THEN @.data_calls + 1
                                 ELSE @.data_calls]]
    /\ UNCHANGED <<encVars, pcVars, drvVars, sharedVars, taskVars, now, sw1,
                   main_pc>>

NextDrv == CallSetDutyCycle \/ CallSetPulseWidth \/ CallGetImageNonblocking

SpecDrv == Init /\ [][NextDrv]_vars

\* ------------------------------------------------------------------------
\* MotorDriver.set_duty_cycle one channel write at a time
\* (motor_driver.py:64-73): the first action starts a call and makes its
\* first pulse_width_percent write, the second makes the second write and
\* returns.  While a call is between its writes ret is <<"pending", 0>> and
\* arg holds the level and the channel values found when the call began.
\* ------------------------------------------------------------------------
\* A first write that drives the active channel before anything is zeroed.
set_duty_cycle_first_write_active ==
    /\ ret[1] # "pending"
    /\ \E level \in {-250 * FP, -100 * FP, -50 * FP, -1, 0, 1, 50 * FP,
                      100 * FP, 250 * FP} :
          /\ IF clip(level) >= 0
             THEN ch1' = clip(level) /\ UNCHANGED ch2
             ELSE ch2' = Abs(clip(level)) /\ UNCHANGED ch1
          /\ arg' = [fn |-> "set_duty_cycle", level |-> level, ch1 |-> ch1,
                     ch2 |-> ch2]
    /\ ret' = <<"pending", 0>>
    /\ UNCHANGED <<encVars, pcVars, servo_pw, led, camVars, sharedVars,
                   taskVars, now, sw1, main_pc, h>>

set_duty_cycle_first_write ==
    /\ ret[1] # "pending"
    /\ \E level \in {-250 * FP, -100 * FP, -50 * FP, -1, 0, 1, 50 * FP,
                      100 * FP, 250 * FP} :
          /\ IF clip(level) >= 0
             THEN ch2' = 0 /\ UNCHANGED ch1
             ELSE ch1' = 0 /\ UNCHANGED ch2
          /\ arg' = [fn |-> "set_duty_cycle", level |-> level, ch1 |-> ch1,
                     ch2 |-> ch2]
    /\ ret' = <<"pending", 0>>
    /\ UNCHANGED <<encVars, pcVars, servo_pw, led, camVars, sharedVars,
                   taskVars, now, sw1, main_pc, h>>

set_duty_cycle_second_write ==
    /\ ret[1] = "pending"
    /\ IF clip(arg.level) >= 0
       THEN ch1' = clip(arg.level) /\ UNCHANGED ch2
       ELSE ch2' = Abs(clip(arg.level)) /\ UNCHANGED ch1
    /\ ret' = <<"return", None>>
    /\ UNCHANGED <<encVars, pcVars, servo_pw, led, camVars, sharedVars,
                   taskVars, now, sw1, main_pc, arg, h>>

NextDuty == set_duty_cycle_first_write \/ set_duty_cycle_second_write

SpecDuty == Init /\ [][NextDuty]_vars

\* ------------------------------------------------------------------------
\* The encoder on its own: the shaft moves, the caller reads and zeroes.
\* ------------------------------------------------------------------------
\* True movements of the shaft tried between two reads.
Movements ==
    {-32768, -32767, -20000, -1035, -536, -1, 1, 1035, 1036, 20000, 32767,
     32768}

\* True movements of one read step: magnitude at most half the period.
EncDeltas(arv) == {d \in Movements : 2 * Abs(d) <= arv + 1}

\* The shaft turns by d counts: the hardware counter follows modulo ar + 1.
EncMove ==
    /\ h.moved = 0
    /\ h.reads < MaxReads
    /\ \E d \in EncDeltas(ar) :
          /\ timer_counter' = (timer_counter + d) % (ar + 1)
          /\ h' = [h EXCEPT !.moved = d, !.since_zero = @ + d]
    /\ UNCHANGED <<ar, position, prev_count, pcVars, drvVars, camVars,
                   sharedVars, taskVars, now, sw1, main_pc, callVars>>

\* Encoder.read(): arg holds the counter value of the previous read and the
\* position before the call, ret the position returned.
EncRead ==
    /\ h.reads < MaxReads
    /\ update_position
    /\ arg' = [fn |-> "read", prev_count |-> prev_count,
               position |-> position]
    /\ ret' = <<"return", read_value>>
    /\ h' = [h EXCEPT !.true_sum = @ + h.moved,
                      !.exact_half = @ \/ 2 * Abs(h.moved) = ar + 1,
                      !.moved = 0,
                      !.reads = @ + 1,
                      !.zreads = @ + 1]
    /\ UNCHANGED <<pcVars, drvVars, camVars, sharedVars, taskVars, now, sw1, main_pc>>

\* Encoder.zero()
EncZero ==
    /\ zero
    /\ h' = [h EXCEPT !.true_sum = 0, !.exact_half = FALSE,
                      !.zeroed = TRUE, !.since_zero = 0, !.zreads = 0]
    /\ UNCHANGED <<pcVars, drvVars, camVars, sharedVars, taskVars, now, sw1, main_pc, callVars>>

\* ------------------------------------------------------------------------
\* The single-task variant (main.py:336-470, main3.py:281-413): main3.py
\* runs turret_process_gen_fun as its only task.  The start button is pressed
\* for at most MaxCycles cycles; the shaft can be turned by hand before the
\* first controller steps.
\* ------------------------------------------------------------------------
\* A RESET state that forgets the shared setpoint.
reset_values_keeps_setpoint ==
    /\ set_duty_cycle(0)
    /\ set_pulse_width(1000)
    /\ led' = FALSE
    /\ image' = NoImage
    /\ loop_val' = 0
    /\ setpoint' = setpoint
    /\ set_setpoint(0)
    /\ zero

\* The assignments of the RESET state; the servo is given 1.0 ms.
reset_values ==
    /\ set_duty_cycle(0)
    /\ set_pulse_width(1000)
    /\ led' = FALSE
    /\ image' = NoImage
    /\ loop_val' = 0
    /\ setpoint' = 0
    /\ set_setpoint(0)
    /\ zero

\* One tick of the generator: the code between two yields.  arg holds the
\* state the tick ran in and the position, the setpoints and the motor
\* command as they stood before it; ret the state yielded next.  The task
\* runs once per MOTOR_CONTROL_INTERVAL (main3.py:434), so the clock
\* advances by that period from one ROTATE tick to the next.
turret_process_gen_fun ==
    /\ main_pc = "pri_sched"
    /\ arg' = [fn |-> "turret_process_gen_fun", state |-> state,
               position |-> position, setpoint |-> setpoint,
               pc_setpoint |-> pc_setpoint, level |-> ch1 - ch2, led |-> led]
    /\ CASE state = IDLE ->
              /\ \E level \in {0, 1} :
                    /\ sw1' = level
                    /\ IF button_pressed(level)
                       THEN /\ h.cycles < MaxCycles
                            /\ led' = TRUE
                            /\ state' = WAIT
                            /\ h' = [h EXCEPT !.cycles = @ + 1]
                            /\ UNCHANGED <<encVars, ch1, ch2>>
                       ELSE /\ set_duty_cycle(0)
                            /\ zero
                            /\ UNCHANGED <<led, state, h>>
              /\ UNCHANGED <<pcVars, servo_pw, camVars, sharedVars, loop_val,
                             now, main_pc>>
         [] state = WAIT ->
              /\ IF loop_val >= WAIT_TIME \div MOTOR_CONTROL_INTERVAL
                 THEN loop_val' = 0 /\ state' = LOCATE
                 ELSE loop_val' = loop_val + 1 /\ UNCHANGED state
              /\ UNCHANGED <<encVars, pcVars, drvVars, camVars, sharedVars,
                             now, sw1, main_pc, h>>
         [] state = LOCATE ->
              /\ IF image = NoImage
                 THEN /\ IF loop_val <= 0
                         THEN \E has_data \in BOOLEAN, f \in FrameIds :
                                 /\ get_image_nonblocking(has_data)
                                 /\ image' = cam_result(has_data, f)
                                 /\ loop_val' = IMAGE_WAIT_TIME
                                                   \div MOTOR_CONTROL_INTERVAL
                         ELSE /\ loop_val' = loop_val - 1
                              /\ UNCHANGED <<camVars, image>>
                      /\ UNCHANGED state
                 ELSE /\ loop_val' = 0
                      /\ state' = PARSE
                      /\ UNCHANGED <<camVars, image>>
              /\ UNCHANGED <<encVars, pcVars, drvVars, start_flag, setpoint,
                             start_time, now, sw1, main_pc, h>>
         [] state = PARSE ->
              /\ IF image \in raising_frames
                 THEN /\ main_pc' = "exit"
                      /\ UNCHANGED <<setpoint, pc_setpoint, state>>
                 ELSE /\ setpoint' = parsed_setpoint[image]
                      /\ set_setpoint(setpoint')
                      /\ state' = ROTATE
                      /\ UNCHANGED main_pc
              /\ UNCHANGED <<encVars, Kp, Kd, setvel, prev_pos, queue_len,
                             timeQ, positionQ, drvVars, camVars, start_flag,
                             image, start_time, loop_val, now, sw1, h>>
         [] state = ROTATE ->
              /\ start_time' = IF loop_val = 0 THEN now ELSE start_time
              /\ IF loop_val <= MOTOR_CONTROL_POINTS
                 THEN /\ run(pc_setpoint, MOTOR_CONTROL_INTERVAL, start_time')
                      /\ loop_val' = loop_val + 1
                      /\ now' = now + MOTOR_CONTROL_INTERVAL
                      /\ h' = [h EXCEPT
                                 !.steps = @ + 1,
                                 !.moved = 0,
                                 !.gen_runs = IF loop_val = 0 THEN 1 ELSE @ + 1]
                      /\ UNCHANGED state
                 ELSE /\ loop_val' = 0
                      /\ state' = FIRE
                      /\ h' = [h EXCEPT !.fire_cmds = {}]
                      /\ UNCHANGED <<encVars, Kp, Kd, setvel, prev_pos,
                                     queue_len, timeQ, positionQ, ch1, ch2,
                                     now>>
              /\ UNCHANGED <<pc_setpoint, servo_pw, led, camVars, start_flag,
                             image, setpoint, sw1, main_pc>>
         [] state = FIRE ->
              /\ IF loop_val <= SERVO_WAIT_TIME \div MOTOR_CONTROL_INTERVAL
                 THEN /\ set_pulse_width(SERVO_START_POS)
                      /\ loop_val' = loop_val + 1
                      /\ h' = [h EXCEPT
                                 !.fire_cmds =
                                     @ \cup {pulse_width_val(SERVO_START_POS)}]
                      /\ UNCHANGED state
                 ELSE /\ state' = RESET
                      /\ UNCHANGED <<servo_pw, loop_val, h>>
              /\ UNCHANGED <<encVars, pcVars, ch1, ch2, led, camVars,
                             sharedVars, now, sw1, main_pc>>
         [] state = RESET ->
              /\ reset_values
              /\ state' = IDLE
              /\ UNCHANGED <<Kp, Kd, setvel, prev_pos, queue_len, timeQ,
                             positionQ, camVars, start_flag, start_time, now,
                             sw1, main_pc, h>>
    /\ ret' = <<"yield", state'>>
    /\ UNCHANGED <<b_state, b_wait, i_state, i_wait, r_state, r_wait, sched>>

NextGen == turret_process_gen_fun \/ PcMove

SpecGen == Init /\ [][NextGen]_vars

NextEnc == EncMove \/ EncRead \/ EncZero

SpecEnc == Init /\ [][NextEnc]_vars

\* ========================================================================
\* Properties
\* ========================================================================
\* C1 as stated: whenever every read step moved the shaft by at most half a
\* period, the position equals the sum of the true movements of the read
\* steps since the last zero().  (EncDeltas admits exactly those steps.)
C1_UnwrapUpToHalf == position = h.true_sum

\* C1 amended: when every read step since the last zero() moved the shaft by
\* strictly less than half a period, the position equals the sum of the true
\* movements of those steps, however often the raw counter wrapped.
C1_UnwrapBelowHalf == ~h.exact_half => position = h.true_sum

\* The 16-bit counter has wrapped upward more than once (the true position
\* exceeds the period) over steps all below half a period.
C1_Witness ==
    /\ ar = TIMER_PERIOD
    /\ h.reads >= 3
    /\ ~h.exact_half
    /\ h.moved = 0
    /\ h.true_sum > ar

PulledCommands ==
    {i \in DOMAIN h.servo_cmds : h.servo_cmds[i] = <<"rotate", SERVO_PULLED_POS>>}

\* C2: when the rotate task has completed FIRE (commanded the rest pulse
\* width and cleared start_flag), it has commanded the pulled pulse width
\* SERVO_PULLED_POS before, in that cycle.
C2_PulledBeforeRest == h.fired => PulledCommands # {}

RotateServoCommands ==
    {i \in DOMAIN h.servo_cmds : h.servo_cmds[i][1] = "rotate"}

\* C4: as long as start_flag has never been set, the rotate task has run no
\* controller step, sent no motor command and no servo command.
C4_NoRotateBeforeStart ==
    ~h.started =>
        /\ h.steps = 0
        /\ RotateServoCommands = {}
        /\ ch1 = 0 /\ ch2 = 0
        /\ timeQ = <<>> /\ positionQ = <<>>
        /\ r_state = RUN

\* The button task is at the end of its settle wait, start_flag still clear.
C4_Witness ==
    /\ ~h.started
    /\ b_state = WAIT
    /\ b_wait = WAIT_TIME \div BUTTON_TASK_INTERVAL

NeutralSetpoint == (ENCODER_COUNT_PER_REV * FP) \div 2

\* C5: the button tick that ends WAIT raises the flag that enables both the
\* image task and the rotate task, and the shared setpoint then equals the
\* neutral value ENCODER_COUNT_PER_REV / 2.
C5_WaitEndRaisesFlags ==
    [][(b_state = WAIT /\ b_state' = DONE) =>
          /\ start_flag = 0
          /\ start_flag' = 1
          /\ image_enabled'
          /\ rotate_enabled'
          /\ setpoint' = NeutralSetpoint]_vars

\* The state the tick that ends WAIT produces.
C5_Witness ==
    /\ b_state = DONE
    /\ start_flag = 1
    /\ setpoint = NeutralSetpoint
    /\ h.steps = 0
    /\ image = NoImage

\* C6: the button task moves only CHECK -> INIT -> WAIT -> DONE (its state
\* is unchanged while it waits or while another task ticks), leaves
\* CHECK only on a tick that sampled the start input low (asserted), stays
\* in DONE and, once start_flag has been cleared again, never re-arms it.
C6_ButtonOrder ==
    [][/\ <<b_state, b_state'>> \in
            {<<CHECK, CHECK>>, <<CHECK, INIT>>, <<INIT, INIT>>, <<INIT, WAIT>>,
             <<WAIT, WAIT>>, <<WAIT, DONE>>, <<DONE, DONE>>}
       /\ (b_state = CHECK /\ b_state' = INIT => sw1' = 0)
       /\ (b_state = CHECK /\ b_state' = CHECK => sw1' = 1)
       /\ (b_state = DONE /\ start_flag = 0 => start_flag' = 0)]_vars

\* The button task is in DONE after a completed cycle.
C6_Witness == b_state = DONE /\ h.fired /\ start_flag = 0

\* C7: after FIRE has cleared start_flag the rotate task is in RUN and stays
\* idle: no later tick runs a controller step or commands the servo or the
\* motor, and the pulled pulse width is commanded at most once per run.
C7_IdleAfterFire ==
    /\ [](h.fired => r_state = RUN /\ start_flag = 0
                       /\ Cardinality(PulledCommands) <= 1)
    /\ [][h.fired =>
            /\ h'.steps = h.steps
            /\ h'.servo_cmds = h.servo_cmds
            /\ servo_pw' = servo_pw
            /\ ch1' = ch1 /\ ch2' = ch2
            /\ r_wait' = r_wait]_vars

C7_Witness == h.fired /\ r_state = RUN /\ r_wait = 0 /\ h.steps > 0

\* C8: once a PARSE tick has consumed the frame, the shared image field is
\* empty again.
C8_FrameClearedAfterParse == h.consumed => image = NoImage

\* C9: once a frame has been obtained and parsed, get_image_nonblocking is
\* not called again.
C9_NoCaptureAfterParse == ~h.polled_after_parse

\* The image task has parsed a frame and has kept ticking until the cycle
\* ended.
C9_Witness == h.consumed /\ h.fired /\ i_state = CAPTURE /\ i_wait > 1

\* C10: get_image_nonblocking is never called while start_flag is clear; in
\* particular the camera has not been touched before start_flag is raised.
C10_NoCaptureWhileDisabled ==
    /\ ~h.polled_disabled
    /\ (~h.started => ~getting_image /\ subpage = 0 /\ image = NoImage)

\* The camera is being polled (an acquisition is under way) with the flag set.
C10_Witness == getting_image /\ subpage = 1 /\ start_flag = 1

\* C11: when main() has terminated after a KeyboardInterrupt, the motor
\* command is 0, the servo output is off (pulse width 0, ServoDriver.zero)
\* and the indicator LED is low.
C11_SafeAtExit ==
    main_pc = "exit" => ch1 = 0 /\ ch2 = 0 /\ servo_pw = 0 /\ led = FALSE


SharedFields == {"start_flag", "setpoint", "image"}
Writers(f) == {a[1] : a \in {x \in h.acc : x[2] = f /\ x[3] = "w"}}
Readers(f) == {a[1] : a \in {x \in h.acc : x[2] = f /\ x[3] = "r"}}

\* C12 as stated: every shared attribute has at most one task that writes
\* it and at most one other task that reads it.
C12_SingleWriterSingleReader ==
    \A f \in SharedFields :
        /\ Cardinality(Writers(f)) <= 1
        /\ Cardinality(Readers(f) \ Writers(f)) <= 1

\* The accesses of the three tasks to the shared attributes.
AccessTable ==
    {<<"button", "start_flag", "w">>, <<"rotate", "start_flag", "w">>,
     <<"image", "start_flag", "r">>, <<"rotate", "start_flag", "r">>,
     <<"button", "setpoint", "w">>, <<"image", "setpoint", "w">>,
     <<"button", "setpoint", "r">>, <<"rotate", "setpoint", "r">>,
     <<"image", "image", "w">>, <<"image", "image", "r">>}

\* C12 amended: start_flag is written only by the button and the rotate
\* task and read only by the image and the rotate task; setpoint is written
\* only by the button and the image task and read only by the button and the
\* rotate task; image is written and read only by the image task; and a
\* cycle in which a frame was parsed makes every one of these accesses.
C12_AccessDiscipline ==
    /\ h.acc \subseteq AccessTable
    /\ (h.fired /\ h.consumed => h.acc = AccessTable)

\* A complete cycle with a parsed frame: all accesses of the table are made.
C12_Witness == h.fired /\ h.consumed /\ h.acc = AccessTable


\* C13: zero() sets the origin at the current position of the shaft.  After
\* zero(), whatever the counter did before, every read() returns the true
\* movement since zero(): 0 while the counter keeps the value it had at
\* zero() (for the first read and for the second), and d after a movement
\* of d below half the period.
C13_ZeroSetsOrigin ==
    (h.zeroed /\ h.zreads >= 1 /\ h.moved = 0 /\ ~h.exact_half)
        => position = h.since_zero


IsUniform(row) == \A i, j \in DOMAIN row : row[i] = row[j]

\* C14: get_center_of_mass returns 0, and raises nothing, for every row
\* that is empty, all zero or uniform (all entries equal).
C14_DegenerateRowsGiveZero ==
    (arg.fn = "get_center_of_mass" /\ ret[1] # "none" /\ IsUniform(arg.data))
        => ret[1] = "return" /\ ret[2] = 0


\* The sum of col * value over a row, columns counted from 0.
ColumnMoment(row) == SumSeq([k \in DOMAIN row |-> (k - 1) * row[k]])

\* i is the lowest index of a row of greatest mean (the rows are equally
\* long, so the means compare as the sums do).
IsFirstOfGreatestMean(rows, i) ==
    /\ \A q \in DOMAIN rows : SumSeq(rows[q]) <= SumSeq(rows[i])
    /\ \A q \in 1..(i - 1) : SumSeq(rows[q]) < SumSeq(rows[i])

\* cm is sum(col * value) / sum(value) of the row, to the fixed-point
\* resolution.
IsWeightedCentroid(row, cm) ==
    /\ cm * SumSeq(row) <= FP * ColumnMoment(row)
    /\ FP * ColumnMoment(row) < (cm + 1) * SumSeq(row)

\* C15: for a frame with at least one non-zero row, parse_image takes the
\* lowest-index row of greatest mean, computes the intensity-weighted
\* centroid sum(col * value) / sum(value) of that row and returns the
\* conversion of that centroid; the centroid of [0, 10, 10, 0] is 1.5.
C15_FirstLargestRowCentroid ==
    /\ get_center_of_mass(<<0, 10, 10, 0>>) = (3 * FP) \div 2
    /\ (/\ arg.fn = "parse_image"
        /\ ret[1] # "none"
        /\ \E r \in DOMAIN arg.rows : SumSeq(arg.rows[r]) > 0)
       => LET rows == arg.rows
              i == largest_mean_idx(rows) + 1
              cm == get_center_of_mass(rows[i])
          IN /\ IsFirstOfGreatestMean(rows, i)
             /\ IsWeightedCentroid(rows[i], cm)
             /\ ret[1] = "return"
             /\ ret[2] = turret_angle_to_encoder_val(
                              center_of_mass_to_degrees(cm))

\* Two different rows tie for the greatest mean and the first one, whose
\* entries are not all equal, has been used.
C15_Witness ==
    /\ arg.fn = "parse_image"
    /\ ret[1] = "return"
    /\ Len(arg.rows) = 2
    /\ SumSeq(arg.rows[1]) = SumSeq(arg.rows[2])
    /\ arg.rows[1] = <<0, 10, 30>>
    /\ arg.rows[2] = <<30, 10, 0>>
    /\ ret[2] = turret_angle_to_encoder_val(
                     center_of_mass_to_degrees((7 * FP) \div 4))

\* C16: whatever the camera distance, the turret distance and the camera
\* field of view, center_of_mass_to_degrees maps the centroid at the
\* horizontal midpoint of the frame (NUM_COLS / 2 columns from the left
\* edge) to the bearing 0, which turret_angle_to_encoder_val maps to the
\* neutral setpoint ENCODER_COUNT_PER_REV / 2.
C16_MidpointIsBoresight ==
    (/\ arg.fn = "center_of_mass_to_degrees"
     /\ ret[1] # "none"
     /\ 2 * arg.cm = NUM_COLS * FP)
    => /\ ret = <<"return", 0>>
       /\ turret_angle_to_encoder_val(ret[2]) = NeutralSetpoint

\* The midpoint has been converted for a set-up other than the one of
\* main.py.
C16_Witness ==
    /\ arg.fn = "center_of_mass_to_degrees"
    /\ 2 * arg.cm = NUM_COLS * FP
    /\ arg.geometry.camera_fov = 110
    /\ ret = <<"return", 0>>


\* The position error and the derivative term of the last run().
PositionError == pc_setpoint - h.obs.p * FP
DerivativeTerm == Kd * (setvel * FP - h.obs.vel * FP)

\* The output the control law gives for the position, the velocity, the
\* setpoint, the target velocity and the Kd of the last run() with the
\* position gain kp.
OutputWithGain(kp) ==
    pwm(kp, Kd, pc_setpoint, setvel, h.obs.p, h.obs.vel)

\* C17 as stated: for the measured position and velocity of a run() with
\* setpoint # position and gain Kp > 0, every greater gain gives an output
\* of strictly greater magnitude.
C17_GainMonotone ==
    (arg.fn = "run" /\ Kp > 0 /\ PositionError # 0)
        => /\ ret[2] = OutputWithGain(Kp)
           /\ \A kp2 \in KpArgs :
                 kp2 > Kp => Abs(OutputWithGain(kp2)) > Abs(OutputWithGain(Kp))

\* The derivative term is zero or pushes the same way as the position error.
DerivativeAgrees ==
    \/ DerivativeTerm = 0
    \/ DerivativeTerm > 0 /\ PositionError > 0
    \/ DerivativeTerm < 0 /\ PositionError < 0

\* C17 amended: the same, provided the derivative term
\* Kd * (target velocity - velocity) is zero or has the sign of
\* setpoint - position.
C17_GainMonotoneAgreeing ==
    (arg.fn = "run" /\ Kp > 0 /\ PositionError # 0 /\ DerivativeAgrees)
        => /\ ret[2] = OutputWithGain(Kp)
           /\ \A kp2 \in KpArgs :
                 kp2 > Kp => Abs(OutputWithGain(kp2)) > Abs(OutputWithGain(Kp))

\* A run() with gain 1, a greater gain to compare with, and a derivative
\* term that is not zero and agrees with the position error.
C17_Witness ==
    /\ arg.fn = "run"
    /\ Kp = 1
    /\ PositionError > 0
    /\ DerivativeTerm > 0
    /\ Abs(OutputWithGain(2)) > Abs(ret[2])

\* C18: set_Kp raises ValueError for every value that is not an int or a
\* float and for every number <= 0, and stores every positive number;
\* set_Kd raises ValueError for every value that is not an int or a float
\* and stores every number, 0 included.
C18_SetterValidation ==
    /\ arg.fn = "set_Kp" =>
          IF arg.value.type \in {"int", "float"} /\ arg.value.val > 0
          THEN ret[1] = "return" /\ Kp = arg.value.val
          ELSE ret[1] = "raise" /\ ret[2] = ValueError
    /\ arg.fn = "set_Kd" =>
          IF arg.value.type \in {"int", "float"}
          THEN ret[1] = "return" /\ Kd = arg.value.val
          ELSE ret[1] = "raise" /\ ret[2] = ValueError

\* Kp has been set to 1 and then Kd to 0, both calls succeeding.
C18_Witness ==
    /\ arg.fn = "set_Kd"
    /\ arg.value.type = "int"
    /\ arg.value.val = 0
    /\ ret[1] = "return"
    /\ Kp = 1
    /\ Kd = 0

\* C19: in every state of the controller, from its construction on, the
\* position gain is a number greater than 0.
C19_KpPositive == Kp > 0

\* What the last run() did, apart from the velocity estimate: it read the
\* position once, computed u = Kp * (setpoint - p) + Kd * (setvel - velocity),
\* passed u unclamped to actuate (the motor driver clips it), returned u and
\* stored p in prev_pos; u is 0 when p is the setpoint and the velocity is the
\* target velocity.
RunLaw ==
    LET u == ret[2]
    IN /\ h.reads = h.steps
       /\ position = h.obs.p
       /\ u = Kp * PositionError + DerivativeTerm
       /\ h.obs.actuated = u
       /\ (IF clip(u) >= 0 THEN ch1 = clip(u) /\ ch2 = 0
                           ELSE ch1 = 0 /\ ch2 = -clip(u))
       /\ prev_pos = h.obs.p
       /\ (PositionError = 0 /\ h.obs.vel = setvel => u = 0)

\* C20 as stated: run() estimates the velocity as
\* (p - prev_pos) * 1000 / interval and follows the control law with it.
C20_RunLawExactVelocity ==
    arg.fn = "run" =>
        /\ h.obs.vel * arg.interval = (h.obs.p - h.obs.prev_pos) * 1000
        /\ RunLaw

\* C20 amended: run() estimates the velocity as the floor of
\* (p - prev_pos) * 1000 / interval (exact when interval divides
\* (p - prev_pos) * 1000, as the 10 ms interval of main.py does) and follows
\* the control law with it.
C20_RunLawFloorVelocity ==
    arg.fn = "run" =>
        /\ h.obs.vel * arg.interval <= (h.obs.p - h.obs.prev_pos) * 1000
        /\ (h.obs.p - h.obs.prev_pos) * 1000 < (h.obs.vel + 1) * arg.interval
        /\ RunLaw

\* A run() with an interval that does not divide the movement, a backward
\* movement, both gains in use and an output beyond the motor's range.
C20_Witness ==
    /\ arg.fn = "run"
    /\ arg.interval = 3
    /\ h.obs.p - h.obs.prev_pos = -1
    /\ Kp > 0 /\ Kd > 0
    /\ ret[2] > 100 * FP
    /\ ch1 = 100 * FP


C22_DutyClamped ==
    arg.fn = "set_duty_cycle" =>
        /\ ret = <<"return", None>>
        /\ IF arg.level >= 0
           THEN ch1 = Min2(Abs(arg.level), 100 * FP) /\ ch2 = 0
           ELSE ch2 = Min2(Abs(arg.level), 100 * FP) /\ ch1 = 0

\* A level below -100 has been commanded and the reverse channel is at 100.
C22_Witness ==
    /\ arg.fn = "set_duty_cycle"
    /\ arg.level < -100 * FP
    /\ ch2 = 100 * FP /\ ch1 = 0

\* C23: after a call set_pulse_width(value) the pulse width written to the
\* PWM channel lies in the servo's widest documented range, 0.8 ms to
\* 2.2 ms (the register holds the width in microseconds, less one), and a
\* request outside that range has been set to the nearest bound of it.
C23_PulseWidthInServoRange ==
    arg.fn = "set_pulse_width" =>
        /\ 800 - 1 <= servo_pw /\ servo_pw <= 2200
        /\ (arg.value < 800 => servo_pw = 800 - 1)
        /\ (arg.value > 2200 => servo_pw \in {2200 - 1, 2200})

\* C24: get_image_nonblocking returns (never raises); it returns a frame on
\* exactly the calls on which the sensor has data and one earlier call since
\* the last frame (or construction) had data, and None otherwise; the calls
\* with data read subpage 0 and then subpage 1; after a frame the next
\* acquisition starts again at subpage 0.
C24_FrameOnSecondDataCall ==
    arg.fn = "get_image_nonblocking" =>
        /\ ret[1] = "return"
        /\ (ret[2] # NoImage <=> arg.has_data /\ h.cam.before = 1)
        /\ (arg.has_data => arg.subpage = h.cam.before)
        /\ h.cam.data_calls \in {0, 1}
        /\ (ret[2] # NoImage => cam_subpage = 0 /\ h.cam.data_calls = 0)
        /\ (ret[2] = NoImage => cam_subpage = h.cam.data_calls)

\* A second frame has just been returned, after polls without data.
C24_Witness ==
    /\ arg.fn = "get_image_nonblocking"
    /\ ret[2] # NoImage
    /\ arg.subpage = 1
    /\ subpage = 1 /\ ~getting_image


\* The cycle is over: FIRE has finished, the servo is at its rest pulse
\* width, start_flag is clear and the tasks are idle.
C25_Idle ==
    /\ h.fired
    /\ start_flag = 0
    /\ servo_pw = pulse_width_val(SERVO_START_POS)
    /\ b_state = DONE /\ r_state = RUN /\ i_state = CAPTURE

\* C25 as stated: under the scheduler of main(), once the button task has
\* seen the start input asserted in CHECK (it is then in INIT), start_flag
\* eventually becomes set; and once start_flag is set, the rotate task
\* eventually finishes FIRE, returning the servo to its rest pulse width and
\* clearing start_flag, and the tasks are left idle: button in DONE, rotate
\* in RUN, image in CAPTURE.  A frame whose readings are all equal makes
\* the PARSE tick raise, which ends main() with start_flag set.
C25_CycleCompletes ==
    /\ (b_state = INIT /\ sw1 = 0) ~> (start_flag = 1)
    /\ (start_flag = 1) ~> C25_Idle

\* C27 as stated: whenever the button task and another task are both ready,
\* the scheduler's next pass runs the button task (its go flag is cleared).
\* main() gives the button task the smallest priority number.
C27_ButtonRunsFirst ==
    [][("button" \in sched.go /\ sched.go # {"button"})
          => "button" \notin sched'.go]_vars


\* C26: the button task's state is always one of CHECK, INIT, WAIT, DONE,
\* the image task's one of CAPTURE, PARSE and the rotate task's one of RUN,
\* FIRE, so that the else branch of the three task bodies (raise ValueError)
\* is never taken.
C26_StatesClosed ==
    /\ b_state \in {CHECK, INIT, WAIT, DONE}
    /\ i_state \in {CAPTURE, PARSE}
    /\ r_state \in {RUN, FIRE}

\* Every task has left its initial state.
C26_Witness == b_state = DONE /\ i_state = PARSE /\ r_state = FIRE


\* C28 as stated: with period 65535, a read that finds the counter at 500
\* after a read that found it at 65000 increases the position by 1035.
C28_WrapExampleBy1035 ==
    (/\ ar = 65535 /\ arg.fn = "read"
     /\ arg.prev_count = 65000 /\ prev_count = 500)
        => ret[2] - arg.position = 1035

\* C28 amended: that read increases the position by 1036, the distance
\* from 65000 up to 500 on a counter of 65536 values.
C28_WrapExampleBy1036 ==
    (/\ ar = 65535 /\ arg.fn = "read"
     /\ arg.prev_count = 65000 /\ prev_count = 500)
        => ret[2] - arg.position = 1036

\* The counter read 65000 on one read and 500 on the next.
C28_Witness ==
    /\ ar = 65535 /\ arg.fn = "read"
    /\ arg.prev_count = 65000 /\ prev_count = 500
    /\ timer_counter = 500
    /\ position = 500


\* C29: every controller step of the rotate task works with the shared
\* setpoint as it stands at the start of the tick, which is the value the
\* button task's INIT or the image task's PARSE last wrote in an earlier
\* tick.
C29_SetpointFresh == ~h.stale_setpoint

\* The controller has stepped on a setpoint that the image task wrote.
C29_Witness ==
    /\ h.steps > 0
    /\ h.sp_written.by = "image"
    /\ pc_setpoint = h.sp_written.value
    /\ pc_setpoint # turret_angle_to_encoder_val(0)
    /\ r_state = RUN

\* ------------------------------------------------------------------------
\* C30.  In the single-task variant the RESET tick leaves the frame empty,
\* the loop counter 0, the shared and the controller setpoint 0 and the
\* encoder position 0, with the motor commanded to 0, the LED off and IDLE
\* as the next state; these are the values after construction, so whenever
\* the generator is at IDLE, at the start of any cycle, they hold.
\* ------------------------------------------------------------------------
C30_ResetRestoresInitial ==
    (state = IDLE \/ (arg.fn = "turret_process_gen_fun" /\ arg.state = RESET))
        => /\ state = IDLE
           /\ image = NoImage
           /\ loop_val = 0
           /\ setpoint = 0
           /\ pc_setpoint = 0
           /\ position = 0
           /\ ch1 = 0 /\ ch2 = 0
           /\ led = FALSE

\* A RESET tick has just run on a cycle that had aimed away from the zero
\* setpoint, with the shaft turned and the LED lit.
C30_Witness ==
    /\ state = IDLE
    /\ arg.fn = "turret_process_gen_fun"
    /\ arg.state = RESET
    /\ arg.setpoint # 0
    /\ arg.pc_setpoint # 0
    /\ arg.position # 0
    /\ arg.led

\* ------------------------------------------------------------------------
\* C31 as stated: in the single-task variant, when FIRE is over (the
\* generator is at RESET) the servo has been given, during that FIRE, a pulse
\* width other than the rest pulse width of construction, SERVO_START_POS.
\* Every FIRE tick commands SERVO_START_POS itself.
\* ------------------------------------------------------------------------
C31_FireMovesServo ==
    state = RESET =>
        \E w \in h.fire_cmds : w # pulse_width_val(SERVO_START_POS)

\* ------------------------------------------------------------------------
\* C34 as stated: in the single-task variant, a ROTATE phase that has ended
\* (the generator is at FIRE) has called run() exactly MOTOR_CONTROL_POINTS
\* times.  The loop condition is loop_val <= MOTOR_CONTROL_POINTS with
\* loop_val starting at 0, which makes one call more.
\* ------------------------------------------------------------------------
C34_RotateRunsPoints == state = FIRE => h.gen_runs = MOTOR_CONTROL_POINTS

\* ------------------------------------------------------------------------
\* C32: with N = WAIT_TIME // BUTTON_TASK_INTERVAL, start_flag is not raised
\* while the button task has run N or fewer WAIT ticks since INIT, the
\* button task is still in WAIT after each of those ticks, and once it has
\* raised start_flag it has run exactly N + 1 WAIT ticks and is in DONE.
\* ------------------------------------------------------------------------
C32_FlagOnTickAfterCount ==
    LET N == WAIT_TIME \div BUTTON_TASK_INTERVAL
    IN /\ (h.wait_ticks <= N => ~h.started /\ start_flag = 0)
       /\ (b_state = WAIT => h.wait_ticks <= N)
       /\ (h.started => h.wait_ticks = N + 1 /\ b_state = DONE)

\* The flag has just been raised, on the tick after the count was reached.
C32_Witness ==
    /\ h.started
    /\ start_flag = 1
    /\ h.wait_ticks = WAIT_TIME \div BUTTON_TASK_INTERVAL + 1
    /\ h.steps = 0

\* ------------------------------------------------------------------------
\* C33: in the three-task variant the rotate task has made fewer than
\* MOTOR_CONTROL_PERIOD // MOTOR_CONTROL_INTERVAL controller steps while it
\* is in RUN before firing, one for every RUN tick it has counted, and
\* exactly that many once it is in FIRE or has fired; the number never
\* exceeds the capacity MOTOR_CONTROL_POINTS of the sample log.
\* ------------------------------------------------------------------------
C33_RunPhaseSteps ==
    LET N == MOTOR_CONTROL_PERIOD \div MOTOR_CONTROL_INTERVAL
    IN /\ h.steps <= MOTOR_CONTROL_POINTS
       /\ ((r_state = FIRE \/ h.fired) => h.steps = N)
       /\ ((r_state = RUN /\ ~h.fired) =>
              /\ h.steps < N
              /\ h.steps = (IF r_wait = 0 THEN 0 ELSE r_wait - 1))
       /\ (h.steps > 0 => h.started)

\* The RUN phase has just ended: the rotate task is about to run its first
\* FIRE tick.
C33_Witness ==
    /\ r_state = FIRE
    /\ r_wait = 1
    /\ h.steps = MOTOR_CONTROL_PERIOD \div MOTOR_CONTROL_INTERVAL
    /\ Len(positionQ) = MOTOR_CONTROL_POINTS

\* ------------------------------------------------------------------------
\* C35 as stated: whenever the rotate task is in FIRE, the shared setpoint
\* was last written by the image task, from a frame captured in the cycle.
\* The RUN phase ends on its tick count alone; a camera that has no frame
\* ready during it leaves the setpoint at the value INIT wrote.
\* ------------------------------------------------------------------------
C35_FireAfterImageSetpoint ==
    (r_state = FIRE /\ h.started) => h.sp_written.by = "image"

\* ------------------------------------------------------------------------
\* C36: once a cycle has started, whenever the rotate task is in FIRE or
\* start_flag is clear again, both motor channels are at 0, the last level
\* the controller passed to the motor being 0.
\* ------------------------------------------------------------------------
C36_MotorOffOutsideRun ==
    (h.started /\ (r_state = FIRE \/ start_flag = 0))
        => ch1 = 0 /\ ch2 = 0 /\ h.last_u = 0

\* The cycle is over, after a RUN phase that aimed at a parsed setpoint away
\* from the turret's position.
C36_Witness ==
    /\ h.fired
    /\ start_flag = 0
    /\ h.steps > 0
    /\ h.sp_written.by = "image"
    /\ pc_setpoint # position

\* ------------------------------------------------------------------------
\* C37: in every state of a sequence of set_duty_cycle calls, the states
\* between the two channel writes of a call included, at most one of the
\* two PWM channels is at a non-zero duty; a finished call has left the
\* channels as the whole call sets them.
\* ------------------------------------------------------------------------
C37_NeverBothChannels ==
    /\ ~(ch1 # 0 /\ ch2 # 0)
    /\ (ret[1] = "pending" =>
           IF clip(arg.level) >= 0 THEN ch2 = 0 ELSE ch1 = 0)
    /\ (ret[1] = "return" =>
           IF clip(arg.level) >= 0
           THEN ch1 = clip(arg.level) /\ ch2 = 0
           ELSE ch1 = 0 /\ ch2 = Abs(clip(arg.level)))

\* A call that reverses the direction is between its two writes: the
\* channel that was driven has been set to 0, the other is not driven yet.
C37_Witness ==
    /\ ret[1] = "pending"
    /\ arg.level < 0
    /\ arg.ch1 > 0
    /\ ch1 = 0 /\ ch2 = 0

\* ------------------------------------------------------------------------
\* C38: after any sequence of run(), reset_queues(), print_data() and
\* set_data_points() calls the two queues hold the same number of entries,
\* the i-th time and the i-th position being the pair one run() call put;
\* print_data() leaves both queues empty, and so does set_data_points().
\* ------------------------------------------------------------------------
C38_QueuesAligned ==
    LET n == Len(h.samples)
        k == Len(timeQ)
    IN /\ Len(positionQ) = k
       /\ k <= n
       /\ \A i \in 1..k : timeQ[i] = h.samples[n - k + i][1]
                            /\ positionQ[i] = h.samples[n - k + i][2]
       /\ (arg.fn \in {"print_data", "set_data_points"}
              => timeQ = <<>> /\ positionQ = <<>>)

\* print_data() has just printed two lines.
C38_Witness ==
    /\ arg.fn = "print_data"
    /\ arg.printed = 2
    /\ timeQ = <<>> /\ positionQ = <<>>

\* ------------------------------------------------------------------------
\* C39: a set_Kp or set_Kd call that raises ValueError changes nothing in
\* the controller: the gains, the setpoint, the target velocity, prev_pos,
\* the queues and their capacity are what they were before the call, and so
\* is the value a run() at the current position would send to the motor.
\* (A step that leaves h as it is is not a movement of the shaft, which
\* leaves the record of the last call in place.)
\* ------------------------------------------------------------------------
C39_FailedSetterChangesNothing ==
    [][(arg'.fn \in {"set_Kp", "set_Kd"} /\ ret'[1] = "raise" /\ h' = h)
          => /\ ret'[2] = ValueError
             /\ Kp' = Kp /\ Kd' = Kd
             /\ pc_setpoint' = pc_setpoint /\ setvel' = setvel
             /\ prev_pos' = prev_pos
             /\ queue_len' = queue_len
             /\ timeQ' = timeQ /\ positionQ' = positionQ
             /\ \A interval \in Intervals :
                   pwm_value(pc_setpoint, read_value, interval)'
                       = pwm_value(pc_setpoint, read_value, interval)]_vars

\* set_Kp(0) has failed on a controller that has made steps with a non-zero
\* output and has samples in its log; the gains are the earlier ones.
C39_Witness ==
    /\ arg.fn = "set_Kp"
    /\ arg.value.type = "int"
    /\ arg.value.val = 0
    /\ ret[1] = "raise"
    /\ Kp > 0
    /\ h.steps > 0
    /\ h.last_u # 0
    /\ Len(timeQ) > 0
    /\ prev_pos # 0

====
